---- MODULE Spec2Model ----
(***************************************************************************)
(* A model of the capybaradb client core:                                  *)
(*   - EmbImage (src/capybaradb/_emb_json/_emb_image.py): construction,    *)
(*     validation, to_json / from_json;                                    *)
(*   - Collection.transform_emb_text and Collection.handle_response        *)
(*     (src/capybaradb/_collection.py).                                    *)
(*                                                                         *)
(* Python values are modelled as follows.  A value that may be None is a  *)
(* sequence of length at most one: <<>> is None, <<v>> is the value v.  A  *)
(* str that the code inspects character by character (the image data) is a *)
(* sequence of one-character strings.  A dict whose key order does not     *)
(* matter (the wire object of an EmbImage) is a function from its keys to  *)
(* such values; a document, whose key order matters, is a list of          *)
(* key/value entries.                                                      *)
(***************************************************************************)
EXTENDS Integers, Sequences, FiniteSets, TLC

VARIABLES
    pc,          \* which operation has run last
    call,        \* EmbImage: the arguments of the constructor / the json_dict fields
    instance,    \* EmbImage: <<>> or <<the live instance>>
    raised,      \* EmbImage: <<>> or <<the ValueError raised>>
    wire,        \* EmbImage: <<>> or <<the value returned by to_json>>
    restored,    \* EmbImage: <<>> or <<the instance from_json returned>>
    restoreRaised, \* EmbImage: <<>> or <<the ValueError from_json raised>>
    original,    \* transform: the document as it was when the call was made
    document,    \* transform: the caller's document (mutated in place)
    returned,    \* transform: <<>> or <<the value transform_emb_text returned>>
    response,    \* classify: the transport response (status_code, body)
    outcome      \* classify: what handle_response returned or raised

vars == <<pc, call, instance, raised, wire, restored, restoreRaised,
          original, document, returned, response, outcome>>

None == <<>>
Some(v) == <<v>>
IsNone(o) == o = <<>>
Val(o) == o[1]

\* ------------------------------------------------------------------------
\* Bounds of the model
\* ------------------------------------------------------------------------
MaxDataLen == 4
MaxChunkInt == 1
MaxChunks == 2
MaxNodes == 6

\* ------------------------------------------------------------------------
\* EmbImage
\* ------------------------------------------------------------------------

\* The characters a data string is built from: a base64 digit, the padding
\* character, and a whitespace character (which is outside the base64 alphabet).
B64Digit == "Q"
B64Pad == "="
Space == " "
Chars == {B64Digit, B64Pad, Space}

SUPPORTED_EMB_MODELS ==
    {"TEXT_EMBEDDING_3_SMALL", "TEXT_EMBEDDING_3_LARGE", "TEXT_EMBEDDING_ADA_002"}

SUPPORTED_VISION_MODELS == {"GPT_4O_MINI", "GPT_4O", "GPT_4O_TURBO", "GPT_O1"}

SUPPORTED_MIME_TYPES ==
    {"image/jpeg", "image/jpg", "image/png", "image/gif", "image/webp"}

DEFAULT_EMB_MODEL == Some("TEXT_EMBEDDING_3_SMALL")
DEFAULT_VISION_MODEL == Some("GPT_4O_MINI")

\* str.strip() of a string made of Chars is empty iff every character is whitespace.
StripIsEmpty(s) == \A i \in 1..Len(s) : s[i] = Space

\* base64.b64decode(s, validate=True) scanning s from position i: quad is the
\* position in the current group of four digits, pads the number of padding
\* characters read.  TRUE iff decoding raises nothing.  This is the strict
\* decoder: a character outside the alphabet, padding that is missing, in
\* excess or not at the end, and a lone digit are errors.
RECURSIVE B64Scan(_, _, _, _)
B64Scan(s, i, quad, pads) ==
    IF i > Len(s)
    THEN \/ (quad = 0 /\ pads = 0)
         \/ (quad = 2 /\ pads = 2)
         \/ (quad = 3 /\ pads = 1)
    ELSE IF s[i] = B64Pad
         THEN quad >= 2 /\ pads < 2 /\ B64Scan(s, i + 1, quad, pads + 1)
         ELSE IF s[i] = B64Digit
              THEN pads = 0 /\ B64Scan(s, i + 1, (quad + 1) % 4, 0)
              ELSE FALSE

B64DecodeOk(s) == B64Scan(s, 1, 0, 0)

\* is_valid_data without the base64 decoding.
is_valid_data_NoDecode(data) ==
    /\ ~IsNone(data)
    /\ ~StripIsEmpty(Val(data))

\* data is None stands for any value that is not a str.
is_valid_data(data) ==
    IF ~(~IsNone(data) /\ ~StripIsEmpty(Val(data)))
    THEN FALSE
    ELSE B64DecodeOk(Val(data))

is_valid_mime_type(mime_type) ==
    ~IsNone(mime_type) /\ Val(mime_type) \in SUPPORTED_MIME_TYPES

is_valid_emb_model(emb_model) ==
    IsNone(emb_model) \/ Val(emb_model) \in SUPPORTED_EMB_MODELS

is_valid_vision_model(vision_model) ==
    IsNone(vision_model) \/ Val(vision_model) \in SUPPORTED_VISION_MODELS

\* What a call that raises leaves behind: the kind of the message and the
\* offending value the message quotes.
Raise(kind, value) == [ok |-> FALSE, error |-> [kind |-> kind, value |-> value]]

\* The assignments of __init__: every attribute is the argument as given, and
\* _chunks is the empty list.
NewInstance(a) ==
    [ok |-> TRUE,
     obj |-> [data |-> a.data,
              mime_type |-> a.mime_type,
              chunks |-> Some(<<>>),
              emb_model |-> a.emb_model,
              vision_model |-> a.vision_model,
              max_chunk_size |-> a.max_chunk_size,
              chunk_overlap |-> a.chunk_overlap,
              is_separator_regex |-> a.is_separator_regex,
              separators |-> a.separators,
              keep_separator |-> a.keep_separator]]

\* A constructor that also enforces the chunking constraints.
EmbImage_init_ChunkChecked(a) ==
    IF ~is_valid_data(a.data) THEN Raise("Invalid data", None)
    ELSE IF ~is_valid_mime_type(a.mime_type)
    THEN Raise("Unsupported mime type", a.mime_type)
    ELSE IF ~IsNone(a.emb_model) /\ ~is_valid_emb_model(a.emb_model)
    THEN Raise("Invalid embedding model", a.emb_model)
    ELSE IF ~IsNone(a.vision_model) /\ ~is_valid_vision_model(a.vision_model)
    THEN Raise("Invalid vision model", a.vision_model)
    ELSE IF \/ (~IsNone(a.max_chunk_size) /\ Val(a.max_chunk_size) <= 0)
            \/ (~IsNone(a.chunk_overlap) /\ Val(a.chunk_overlap) < 0)
            \/ (/\ ~IsNone(a.max_chunk_size) /\ ~IsNone(a.chunk_overlap)
                /\ Val(a.chunk_overlap) >= Val(a.max_chunk_size))
    THEN Raise("Invalid chunking", None)
    ELSE NewInstance(a)

\* EmbImage.__init__
EmbImage_init(a) ==
    IF ~is_valid_data(a.data) THEN Raise("Invalid data", None)
    ELSE IF ~is_valid_mime_type(a.mime_type)
    THEN Raise("Unsupported mime type", a.mime_type)
    ELSE IF ~IsNone(a.emb_model) /\ ~is_valid_emb_model(a.emb_model)
    THEN Raise("Invalid embedding model", a.emb_model)
    ELSE IF ~IsNone(a.vision_model) /\ ~is_valid_vision_model(a.vision_model)
    THEN Raise("Invalid vision model", a.vision_model)
    ELSE NewInstance(a)

\* dict.get(key): None when the key is absent (or maps to None).
Get(d, key) == IF key \in DOMAIN d THEN d[key] ELSE None

\* dict.get(key, default)
GetOr(d, key, default) == IF key \in DOMAIN d THEN d[key] ELSE default

EmptyDict == <<>>

\* `if value is not None: result[key] = value`
PutIfNotNone(key, value) == IF ~IsNone(value) THEN key :> value ELSE EmptyDict

\* `if value: result[key] = value` for a list: neither None nor empty.
Truthy(value) == ~IsNone(value) /\ Val(value) /= <<>>

\* to_json testing `if self.max_chunk_size:` instead of `is not None`.
to_json_Truthy(self) ==
    LET result ==
            ("data" :> self.data) @@ ("mime_type" :> self.mime_type)
            @@ (IF Truthy(self.chunks) THEN "chunks" :> self.chunks ELSE EmptyDict)
            @@ PutIfNotNone("emb_model", self.emb_model)
            @@ PutIfNotNone("vision_model", self.vision_model)
            @@ (IF ~IsNone(self.max_chunk_size) /\ Val(self.max_chunk_size) /= 0
                THEN "max_chunk_size" :> self.max_chunk_size ELSE EmptyDict)
            @@ PutIfNotNone("chunk_overlap", self.chunk_overlap)
            @@ PutIfNotNone("is_separator_regex", self.is_separator_regex)
            @@ PutIfNotNone("separators", self.separators)
            @@ PutIfNotNone("keep_separator", self.keep_separator)
    IN  "@embImage" :> result

\* to_json writing every attribute, None or not.
to_json_AllKeys(self) ==
    "@embImage" :>
        [k \in {"data", "mime_type", "chunks", "emb_model", "vision_model",
                "max_chunk_size", "chunk_overlap", "is_separator_regex",
                "separators", "keep_separator"} |-> self[k]]

\* EmbImage.to_json
to_json(self) ==
    LET result ==
            ("data" :> self.data) @@ ("mime_type" :> self.mime_type)
            @@ (IF Truthy(self.chunks) THEN "chunks" :> self.chunks ELSE EmptyDict)
            @@ PutIfNotNone("emb_model", self.emb_model)
            @@ PutIfNotNone("vision_model", self.vision_model)
            @@ PutIfNotNone("max_chunk_size", self.max_chunk_size)
            @@ PutIfNotNone("chunk_overlap", self.chunk_overlap)
            @@ PutIfNotNone("is_separator_regex", self.is_separator_regex)
            @@ PutIfNotNone("separators", self.separators)
            @@ PutIfNotNone("keep_separator", self.keep_separator)
    IN  "@embImage" :> result

\* EmbImage.from_json
from_json(json_dict) ==
    LET image_data == Get(json_dict, "data")
        mime_type == Get(json_dict, "mime_type")
        made == EmbImage_init(
                    [data |-> image_data,
                     mime_type |-> mime_type,
                     emb_model |-> Get(json_dict, "emb_model"),
                     vision_model |-> Get(json_dict, "vision_model"),
                     max_chunk_size |-> Get(json_dict, "max_chunk_size"),
                     chunk_overlap |-> Get(json_dict, "chunk_overlap"),
                     is_separator_regex |-> Get(json_dict, "is_separator_regex"),
                     separators |-> Get(json_dict, "separators"),
                     keep_separator |-> Get(json_dict, "keep_separator")])
    IN  IF IsNone(image_data) THEN Raise("JSON data must include 'data'", None)
        ELSE IF IsNone(mime_type) THEN Raise("JSON data must include 'mime_type'", None)
        ELSE IF ~made.ok THEN made
        ELSE [ok |-> TRUE,
              obj |-> [made.obj EXCEPT
                          !.chunks = GetOr(json_dict, "chunks", Some(<<>>))]]

\* ------------------------------------------------------------------------
\* EmbImage: the calls the model makes
\* ------------------------------------------------------------------------

\* Every string of at most n characters.
Strings(n) == UNION {[1..k -> Chars] : k \in 0..n}

DataValues == {None} \cup {Some(s) : s \in Strings(MaxDataLen)}
MimeValues == {None, Some("image/bmp")} \cup {Some(m) : m \in SUPPORTED_MIME_TYPES}
EmbValues == {None, Some("not-a-model")} \cup {Some(m) : m \in SUPPORTED_EMB_MODELS}
VisionValues == {None, Some("not-a-model")} \cup {Some(m) : m \in SUPPORTED_VISION_MODELS}
IntValues == {None} \cup {Some(n) : n \in (0 - 1)..MaxChunkInt}
BoolValues == {None, Some(FALSE), Some(TRUE)}
SeparatorValues == {None, Some(<<>>), Some(<<",">>)}
ChunkLists == UNION {[1..k -> {"chunk a", "chunk b"}] : k \in 0..MaxChunks}

\* Calls that vary the validated arguments.
ValidationCalls ==
    [data : DataValues, mime_type : MimeValues, emb_model : EmbValues,
     vision_model : VisionValues, max_chunk_size : {None},
     chunk_overlap : {None}, is_separator_regex : {None},
     separators : {None}, keep_separator : {None}]

\* Calls that vary the chunking configuration, on accepted and on rejected
\* data and mime types.
ConfigCalls ==
    [data : {Some(<<>>), Some(<<"Q", "Q", "Q", "Q">>), Some(<<"Q", "Q", "=", "=">>)},
     mime_type : {Some("image/bmp"), Some("image/png")},
     emb_model : {None, Some("TEXT_EMBEDDING_3_LARGE")},
     vision_model : {None, Some("GPT_4O")},
     max_chunk_size : IntValues, chunk_overlap : IntValues,
     is_separator_regex : BoolValues, separators : SeparatorValues,
     keep_separator : BoolValues]

Calls == ValidationCalls \cup ConfigCalls

\* The json_dict that carries the arguments a: an argument that is None is
\* either left out or, with nulls, sent as null; chunks is left out when None.
JsonDict(a, chunks, nulls) ==
    LET Put(key, value) ==
            IF IsNone(value) /\ ~nulls THEN EmptyDict ELSE key :> value
    IN  Put("data", a.data) @@ Put("mime_type", a.mime_type)
        @@ PutIfNotNone("chunks", chunks)
        @@ Put("emb_model", a.emb_model) @@ Put("vision_model", a.vision_model)
        @@ Put("max_chunk_size", a.max_chunk_size)
        @@ Put("chunk_overlap", a.chunk_overlap)
        @@ Put("is_separator_regex", a.is_separator_regex)
        @@ Put("separators", a.separators)
        @@ Put("keep_separator", a.keep_separator)

NoDocument == <<>>
NoResponse == [status_code |-> 0, body |-> [kind |-> "none"]]
NoOutcome == [tag |-> "none"]

ImageIdle ==
    /\ original = NoDocument /\ document = NoDocument /\ returned = None
    /\ response = NoResponse /\ outcome = NoOutcome

ImageFrame == UNCHANGED <<original, document, returned, response, outcome>>

InitImage ==
    /\ pc = "image_start"
    /\ call \in Calls
    /\ instance = None /\ raised = None
    /\ wire = None /\ restored = None /\ restoreRaised = None
    /\ ImageIdle

\* The outcome r of a constructing call becomes the state.
Finish(r, next, failed) ==
    /\ pc' = IF r.ok THEN next ELSE failed
    /\ instance' = IF r.ok THEN Some(r.obj) ELSE None
    /\ raised' = IF r.ok THEN None ELSE Some(r.error)
    /\ UNCHANGED <<call, wire, restored, restoreRaised>>
    /\ ImageFrame

\* EmbImage(data, mime_type, emb_model, ..., keep_separator)
Construct ==
    /\ pc = "image_start"
    /\ Finish(EmbImage_init(call), "constructed", "construct_failed")

\* EmbImage(data, mime_type, max_chunk_size=..., ...): the models defaulted.
ConstructDefault ==
    /\ pc = "image_start"
    /\ Finish(EmbImage_init([call EXCEPT !.emb_model = DEFAULT_EMB_MODEL,
                                          !.vision_model = DEFAULT_VISION_MODEL]),
              "constructed_default", "construct_default_failed")

\* EmbImage.from_json(json_dict) on a dict received from the service.
FromJson ==
    /\ pc = "image_start"
    /\ \E chunks \in {None} \cup {Some(c) : c \in ChunkLists}, nulls \in BOOLEAN :
          Finish(from_json(JsonDict(call, chunks, nulls)),
                 "deserialized", "deserialize_failed")

\* x.to_json() on a live instance.
ToJson ==
    /\ pc \in {"constructed", "constructed_default", "deserialized"}
    /\ pc' = "serialized"
    /\ wire' = Some(to_json(Val(instance)))
    /\ UNCHANGED <<call, instance, raised, restored, restoreRaised>>
    /\ ImageFrame

Restore(r, next) ==
    /\ pc' = next
    /\ restored' = IF r.ok THEN Some(r.obj) ELSE None
    /\ restoreRaised' = IF r.ok THEN None ELSE Some(r.error)
    /\ UNCHANGED <<call, instance, raised, wire>>
    /\ ImageFrame

\* EmbImage.from_json(x.to_json()["@embImage"])
RoundTripInner ==
    /\ pc = "serialized"
    /\ Restore(from_json(Val(wire)["@embImage"]), "restored")

\* EmbImage.from_json(x.to_json())
RoundTripTagged ==
    /\ pc = "serialized"
    /\ Restore(from_json(Val(wire)), "restored_tagged")

NextImage ==
    \/ Construct
    \/ ConstructDefault
    \/ FromJson
    \/ ToJson
    \/ RoundTripInner
    \/ RoundTripTagged

SpecImage == InitImage /\ [][NextImage]_vars

\* ------------------------------------------------------------------------
\* EmbImage: properties
\* ------------------------------------------------------------------------

OptionalKeys ==
    {"emb_model", "vision_model", "max_chunk_size", "chunk_overlap",
     "is_separator_regex", "separators", "keep_separator"}

\* A non-empty base64 text: digits in groups of four, the last group padded
\* with at most two trailing padding characters.
WellFormedBase64(s) ==
    /\ Len(s) > 0
    /\ Len(s) % 4 = 0
    /\ \A i \in 1..Len(s) : s[i] \in {B64Digit, B64Pad}
    /\ \A i \in 1..Len(s) :
          s[i] = B64Pad => (i >= Len(s) - 1 /\ s[Len(s)] = B64Pad)

\* The data-model invariants, on the attributes of an instance or on the
\* arguments of a call.
SatisfiesInvariants(x) ==
    /\ ~IsNone(x.data) /\ WellFormedBase64(Val(x.data))
    /\ ~IsNone(x.mime_type) /\ Val(x.mime_type) \in SUPPORTED_MIME_TYPES
    /\ (IsNone(x.emb_model) \/ Val(x.emb_model) \in SUPPORTED_EMB_MODELS)
    /\ (IsNone(x.vision_model) \/ Val(x.vision_model) \in SUPPORTED_VISION_MODELS)

\* The chunking constraints of the data model.
ChunkingOk(x) ==
    /\ (IsNone(x.max_chunk_size) \/ Val(x.max_chunk_size) > 0)
    /\ (IsNone(x.chunk_overlap) \/ Val(x.chunk_overlap) >= 0)
    /\ ((~IsNone(x.max_chunk_size) /\ ~IsNone(x.chunk_overlap))
            => Val(x.chunk_overlap) < Val(x.max_chunk_size))

\* The constructor or from_json has been called with the arguments of call.
CalledWithCall ==
    pc \in {"constructed", "construct_failed", "deserialized", "deserialize_failed"}

\* C5 (as amended): from_json applied to the object under the "@embImage" tag
\* of x.to_json() succeeds and returns an instance with the same data,
\* mime type, optional attributes (None staying None) and chunks as x.
C5_RoundTripInner ==
    pc = "restored" => (IsNone(restoreRaised) /\ restored = instance)

\* A round trip of an instance that came from the service with chunks, with
\* an attribute that is None and a chunk size of 0.
C5_Witness ==
    /\ pc = "restored"
    /\ ~IsNone(instance)
    /\ Len(Val(Val(instance).chunks)) = 2
    /\ IsNone(Val(instance).emb_model)
    /\ Val(instance).max_chunk_size = Some(0)
    /\ Val(instance).keep_separator = Some(FALSE)

\* C5 (as stated): from_json applied to the output of to_json itself succeeds
\* and returns an instance equal to x.
C5_RoundTripTagged ==
    pc = "restored_tagged" => (IsNone(restoreRaised) /\ restored = instance)

\* C6: the object under "@embImage" always has data and mime_type, has chunks
\* exactly when the chunks of x are non-empty, has each optional key exactly
\* when that attribute of x is not None, and has no key whose value is None.
C6_Omission ==
    pc = "serialized" =>
        LET x == Val(instance)
            inner == Val(wire)["@embImage"]
        IN  /\ DOMAIN Val(wire) = {"@embImage"}
            /\ {"data", "mime_type"} \subseteq DOMAIN inner
            /\ ("chunks" \in DOMAIN inner) <=> (Val(x.chunks) /= <<>>)
            /\ \A k \in OptionalKeys : (k \in DOMAIN inner) <=> ~IsNone(x[k])
            /\ \A k \in DOMAIN inner : ~IsNone(inner[k])

\* A serialized instance with chunks, an absent and a present optional attribute.
C6_Witness ==
    /\ pc = "serialized"
    /\ Val(Val(instance).chunks) /= <<>>
    /\ IsNone(Val(instance).vision_model)
    /\ Val(instance).separators = Some(<<>>)
    /\ "chunks" \in DOMAIN Val(wire)["@embImage"]

\* C7: every instance, from the constructor or from from_json, satisfies the
\* data-model invariants, and a call whose arguments violate one of them
\* raises a ValueError and leaves no instance.
C7_Invariants ==
    /\ ~IsNone(instance) => SatisfiesInvariants(Val(instance))
    /\ ~IsNone(restored) => SatisfiesInvariants(Val(restored))
    /\ (CalledWithCall /\ ~SatisfiesInvariants(call))
            => (IsNone(instance) /\ ~IsNone(raised))

\* from_json rejected a dict whose data is not base64 although it is not blank.
C7_Witness ==
    /\ pc = "deserialize_failed"
    /\ call.data = Some(<<"Q", "Q", "Q">>)
    /\ call.mime_type = Some("image/png")
    /\ ~IsNone(raised)

\* C8 (as stated): no instance has a max_chunk_size <= 0, a negative
\* chunk_overlap, or a chunk_overlap >= max_chunk_size.
C8_ChunkingValidated ==
    /\ ~IsNone(instance) => ChunkingOk(Val(instance))
    /\ ~IsNone(restored) => ChunkingOk(Val(restored))

\* C8 (as amended): construction and deserialization fail exactly when data,
\* mime type, embedding model or vision model is invalid; max_chunk_size and
\* chunk_overlap are not validated and are stored as given.
C8_ChunkingStoredAsGiven ==
    CalledWithCall =>
        /\ ~IsNone(instance) <=> SatisfiesInvariants(call)
        /\ ~IsNone(instance) =>
              /\ Val(instance).max_chunk_size = call.max_chunk_size
              /\ Val(instance).chunk_overlap = call.chunk_overlap

\* An instance was constructed with max_chunk_size 0 and chunk_overlap 1.
C8_Witness ==
    /\ pc = "constructed"
    /\ ~IsNone(instance)
    /\ Val(instance).max_chunk_size = Some(0)
    /\ Val(instance).chunk_overlap = Some(1)

\* ------------------------------------------------------------------------
\* Collection.handle_response
\* ------------------------------------------------------------------------

\* A response body is one of
\*   [kind |-> "text", text]             text that is not valid JSON,
\*   [kind |-> "object", code, message]  a JSON object; a field that is None is
\*                                       a key the object does not have,
\*   [kind |-> "value", text]            valid JSON that is not an object.
\* The code of an object, when present, is an integer.
StatusCodes ==
    {100, 101, 200, 201, 204, 299, 300, 302, 304, 399,
     400, 401, 403, 404, 499, 500, 502, 503, 599}

EnvelopeCodes ==
    {None} \cup {Some(c) : c \in {0, 200, 302, 399, 400, 401, 402, 404,
                                    499, 500, 503, 599, 600}}

EnvelopeMessages == {None, Some("bad key"), Some("boom")}

Bodies ==
    {[kind |-> "text", text |-> t] : t \in {"", "upstream down"}}
    \cup {[kind |-> "value", text |-> t] : t \in {"[]", "null"}}
    \cup [kind : {"object"}, code : EnvelopeCodes, message : EnvelopeMessages]

\* response.raise_for_status() with only the 4xx codes raising.
raise_for_status_Only4xx(status_code) ==
    400 <= status_code /\ status_code < 500

\* response.raise_for_status(): TRUE iff it raises HTTPError.
raise_for_status(status_code) ==
    400 <= status_code /\ status_code < 600

Success(payload) == [tag |-> "Success", payload |-> payload]
Failure(kind, status_code, message) ==
    [tag |-> "Failure", kind |-> kind, status_code |-> status_code,
     message |-> message]
\* An exception that is not an APIClientError leaves handle_response.
Propagates(exception) == [tag |-> "Raised", exception |-> exception]

\* The branches on code, with the bounds of the client range off by one.
ErrorFor_OffByOne(code, message) ==
    IF code = 401 THEN Failure("Authentication", code, message)
    ELSE IF code > 400 /\ code <= 500 THEN Failure("ClientRequest", code, message)
    ELSE Failure("Server", code, message)

\* The exception raised for an envelope's code and message.
ErrorFor(code, message) ==
    IF code = 401 THEN Failure("Authentication", code, message)
    ELSE IF code >= 400 /\ code < 500 THEN Failure("ClientRequest", code, message)
    ELSE Failure("Server", code, message)

\* error_data.get(key, default) on an envelope whose field is present or not.
FieldOr(field, default) == IF IsNone(field) THEN default ELSE Val(field)

\* Collection.handle_response
handle_response(resp) ==
    IF ~raise_for_status(resp.status_code)
    THEN IF resp.body.kind = "text"
         THEN Propagates("JSONDecodeError")
         ELSE Success(resp.body)
    ELSE IF resp.body.kind = "text"
         THEN Failure("Generic", resp.status_code, resp.body.text)
         ELSE IF resp.body.kind = "value"
              THEN Propagates("AttributeError")
              ELSE ErrorFor(FieldOr(resp.body.code, 500),
                            FieldOr(resp.body.message,
                                    "An unknown error occurred."))

ClassifyIdle ==
    /\ call = None /\ instance = None /\ raised = None /\ wire = None
    /\ restored = None /\ restoreRaised = None
    /\ original = NoDocument /\ document = NoDocument /\ returned = None

InitClassify ==
    /\ pc = "response_received"
    /\ response \in [status_code : StatusCodes, body : Bodies]
    /\ outcome = NoOutcome
    /\ ClassifyIdle

\* self.handle_response(response)
HandleResponse ==
    /\ pc = "response_received"
    /\ pc' = "classified"
    /\ outcome' = handle_response(response)
    /\ UNCHANGED <<call, instance, raised, wire, restored, restoreRaised,
                   original, document, returned, response>>

NextClassify == HandleResponse

SpecClassify == InitClassify /\ [][NextClassify]_vars

\* ------------------------------------------------------------------------
\* handle_response: properties
\* ------------------------------------------------------------------------

IsErrorStatus(status_code) == status_code \in 400..599
Is2xx(status_code) == status_code \in 200..299

\* The kind the claim gives to an envelope code.
KindOf(code) ==
    IF code = 401 THEN "Authentication"
    ELSE IF code \in 400..499 THEN "ClientRequest"
    ELSE "Server"

\* C2: for a response handled as an error, a body that is not JSON gives
\* Failure(Generic, transport status, body text); any other body gives a
\* Failure whose kind is decided by the envelope's code alone (500 when
\* absent) and which carries that code and the envelope's message (the
\* default message when absent).
C2_FourWay ==
    (pc = "classified" /\ IsErrorStatus(response.status_code)) =>
        IF response.body.kind = "text"
        THEN outcome = Failure("Generic", response.status_code, response.body.text)
        ELSE LET code == IF response.body.kind = "object"
                            /\ ~IsNone(response.body.code)
                         THEN Val(response.body.code) ELSE 500
                 message == IF response.body.kind = "object"
                               /\ ~IsNone(response.body.message)
                            THEN Val(response.body.message)
                            ELSE "An unknown error occurred."
             IN  outcome = Failure(KindOf(code), code, message)

\* C3 (as stated): for every status code outside 200..299 the outcome is a
\* Failure.
C3_SuccessOnly2xx ==
    (pc = "classified" /\ ~Is2xx(response.status_code)) => outcome.tag = "Failure"

\* C3 (as amended): Success is returned only for a status code outside
\* 400..599, and then it carries the decoded body; for every status code in
\* 400..599 and every body the outcome is an error, never a Success.
C3_SuccessOnlyBelow400 ==
    pc = "classified" =>
        /\ outcome.tag = "Success" =>
              /\ ~IsErrorStatus(response.status_code)
              /\ response.body.kind /= "text"
              /\ outcome.payload = response.body
        /\ IsErrorStatus(response.status_code) => outcome.tag \in {"Failure", "Raised"}

\* A 5xx response with a JSON body has been classified as a failure.
C3_Witness ==
    /\ pc = "classified"
    /\ response.status_code = 503
    /\ response.body.kind = "object"
    /\ outcome.tag = "Failure"

\* C4: a 2xx response whose body is not valid JSON gives the generic client
\* error carrying the status code.
C4_DecodeFailureIsGeneric ==
    (pc = "classified" /\ Is2xx(response.status_code)
        /\ response.body.kind = "text") =>
        /\ outcome.tag = "Failure"
        /\ outcome.kind = "Generic"
        /\ outcome.status_code = response.status_code

\* C10 (as stated): every Failure of kind Server carries a code >= 500.
C10_ServerAtLeast500 ==
    (outcome.tag = "Failure" /\ outcome.kind = "Server") => outcome.status_code >= 500

\* C10 (as amended): every Failure of kind Server carries a code outside
\* 400..499, and an error envelope whose code is below 400 is classified as
\* Server.
C10_ServerOutside4xx ==
    /\ (outcome.tag = "Failure" /\ outcome.kind = "Server")
            => outcome.status_code \notin 400..499
    /\ (/\ pc = "classified" /\ IsErrorStatus(response.status_code)
        /\ response.body.kind = "object" /\ ~IsNone(response.body.code)
        /\ Val(response.body.code) < 400)
            => (outcome.tag = "Failure" /\ outcome.kind = "Server")

\* An envelope with code 302 has been classified as a Server failure.
C10_Witness ==
    /\ pc = "classified"
    /\ response.body.kind = "object"
    /\ response.body.code = Some(302)
    /\ outcome.tag = "Failure"
    /\ outcome.kind = "Server"
    /\ outcome.status_code = 302

\* ------------------------------------------------------------------------
\* Collection.transform_emb_text
\* ------------------------------------------------------------------------

\* A value of a document is one of
\*   [t |-> "scalar", v]     a str, number, bool or None,
\*   [t |-> "EmbText", data] an EmbText instance,
\*   [t |-> "EmbImage", obj] an EmbImage instance,
\*   [t |-> "dict", items]   a dict: the list of its entries [k, v] in key order,
\*   [t |-> "list", elems]   a list,
\*   [t |-> "json", value]   the plain JSON data inside a serialized media object.
Scalar(v) == [t |-> "scalar", v |-> v]
Dict(items) == [t |-> "dict", items |-> items]
List(elems) == [t |-> "list", elems |-> elems]
Json(value) == [t |-> "json", value |-> value]

EmbTextObj == [t |-> "EmbText", data |-> "hello"]

EmbImageObj ==
    [t |-> "EmbImage",
     obj |-> EmbImage_init(
                 [data |-> Some(<<"Q", "Q", "Q", "Q">>),
                  mime_type |-> Some("image/png"),
                  emb_model |-> DEFAULT_EMB_MODEL,
                  vision_model |-> DEFAULT_VISION_MODEL,
                  max_chunk_size |-> None, chunk_overlap |-> None,
                  is_separator_regex |-> None, separators |-> None,
                  keep_separator |-> None]).obj]

\* The dict {tag: payload} a media object serializes to.
WireDoc(tag, payload) == Dict(<<[k |-> tag, v |-> Json(payload)]>>)

\* EmbText.to_json
EmbText_to_json(value) == WireDoc("@embText", [data |-> value.data])

\* isinstance(value, EmbText)
IsEmbText(value) == value.t = "EmbText"

\* transform_emb_text that also converts an EmbText that is an element of a list.
RECURSIVE transform_emb_text_ListElements(_)
transform_emb_text_ListElements(doc) ==
    Dict([i \in 1..Len(doc.items) |->
            LET key == doc.items[i].k
                value == doc.items[i].v
            IN  IF IsEmbText(value)
                THEN [k |-> key, v |-> EmbText_to_json(value)]
                ELSE IF value.t = "dict"
                THEN [k |-> key, v |-> transform_emb_text_ListElements(value)]
                ELSE IF value.t = "list"
                THEN [k |-> key,
                      v |-> List([j \in 1..Len(value.elems) |->
                                   IF value.elems[j].t = "dict"
                                   THEN transform_emb_text_ListElements(value.elems[j])
                                   ELSE IF IsEmbText(value.elems[j])
                                   THEN EmbText_to_json(value.elems[j])
                                   ELSE value.elems[j]])]
                ELSE [k |-> key, v |-> value]])

\* Collection.transform_emb_text: the document after the loop over its items.
RECURSIVE transform_emb_text(_)
transform_emb_text(doc) ==
    Dict([i \in 1..Len(doc.items) |->
            LET key == doc.items[i].k
                value == doc.items[i].v
            IN  IF IsEmbText(value)
                THEN [k |-> key, v |-> EmbText_to_json(value)]
                ELSE IF value.t = "dict"
                THEN [k |-> key, v |-> transform_emb_text(value)]
                ELSE IF value.t = "list"
                THEN [k |-> key,
                      v |-> List([j \in 1..Len(value.elems) |->
                                   IF value.elems[j].t = "dict"
                                   THEN transform_emb_text(value.elems[j])
                                   ELSE value.elems[j]])]
                ELSE [k |-> key, v |-> value]])

\* The values a caller puts into a document.
Leaves == {Scalar("s"), EmbTextObj, EmbImageObj}
NewValues == Leaves \cup {Dict(<<>>), List(<<>>)}
Keys == {"a", "b"}

\* The number of values of a document.
RECURSIVE Size(_)
RECURSIVE SizeOfAll(_, _)
SizeOfAll(values, i) ==
    IF i > Len(values) THEN 0 ELSE Size(values[i]) + SizeOfAll(values, i + 1)
Size(value) ==
    IF value.t = "dict"
    THEN 1 + SizeOfAll([i \in 1..Len(value.items) |-> value.items[i].v], 1)
    ELSE IF value.t = "list" THEN 1 + SizeOfAll(value.elems, 1)
    ELSE 1

\* The values that value becomes when the caller sets a new key of one of
\* its dicts (d[key] = new) or appends to one of its lists (l.append(new)).
RECURSIVE Grown(_)
Grown(value) ==
    IF value.t = "dict"
    THEN {Dict(Append(value.items, [k |-> key, v |-> new])) :
              key \in Keys \ {value.items[i].k : i \in 1..Len(value.items)},
              new \in NewValues}
         \cup UNION {{Dict([value.items EXCEPT ![i].v = g]) :
                         g \in Grown(value.items[i].v)} :
                     i \in 1..Len(value.items)}
    ELSE IF value.t = "list"
    THEN {List(Append(value.elems, new)) : new \in NewValues}
         \cup UNION {{List([value.elems EXCEPT ![i] = g]) :
                         g \in Grown(value.elems[i])} :
                     i \in 1..Len(value.elems)}
    ELSE {}

TransformIdle ==
    /\ call = None /\ instance = None /\ raised = None /\ wire = None
    /\ restored = None /\ restoreRaised = None
    /\ response = NoResponse /\ outcome = NoOutcome

InitTransform ==
    /\ pc = "building"
    /\ document = Dict(<<>>)
    /\ original = NoDocument
    /\ returned = None
    /\ TransformIdle

\* The caller builds the document, one value at a time.
BuildDocument ==
    /\ pc = "building"
    /\ Size(document) < MaxNodes
    /\ \E g \in Grown(document) : document' = g
    /\ UNCHANGED <<pc, call, instance, raised, wire, restored, restoreRaised,
                   original, returned, response, outcome>>

\* self.transform_emb_text(document): the document is changed in place and
\* returned.
TransformEmbText ==
    /\ pc = "building"
    /\ pc' = "transformed"
    /\ original' = document
    /\ document' = transform_emb_text(document)
    /\ returned' = Some(document')
    /\ UNCHANGED <<call, instance, raised, wire, restored, restoreRaised,
                   response, outcome>>

NextTransform == BuildDocument \/ TransformEmbText

SpecTransform == InitTransform /\ [][NextTransform]_vars

\* ------------------------------------------------------------------------
\* The whole client core
\* ------------------------------------------------------------------------
Init == InitImage \/ InitClassify \/ InitTransform

Next == NextImage \/ NextClassify \/ NextTransform

Spec == Init /\ [][Next]_vars

\* ------------------------------------------------------------------------
\* transform_emb_text: properties
\* ------------------------------------------------------------------------

IsMediaObject(value) == value.t \in {"EmbText", "EmbImage"}

\* serialize() of a media object of either variant.
Serialize(value) ==
    IF value.t = "EmbText" THEN EmbText_to_json(value)
    ELSE WireDoc("@embImage", to_json(value.obj)["@embImage"])

\* Every entry of dict d, at any depth reached through dicts and through
\* dicts that are elements of a list, whose value is a media object holds
\* that object's serialization in r.
RECURSIVE MediaSerialized(_, _)
MediaSerialized(d, r) ==
    /\ r.t = "dict"
    /\ Len(r.items) = Len(d.items)
    /\ \A i \in 1..Len(d.items) :
          LET v == d.items[i].v
              w == r.items[i].v
          IN  /\ IsMediaObject(v) => w = Serialize(v)
              /\ v.t = "dict" => MediaSerialized(v, w)
              /\ v.t = "list" =>
                    /\ w.t = "list"
                    /\ Len(w.elems) = Len(v.elems)
                    /\ \A j \in 1..Len(v.elems) :
                          v.elems[j].t = "dict"
                              => MediaSerialized(v.elems[j], w.elems[j])

\* C1: after transform, every dict entry reachable through nested dicts, or
\* through dicts that are elements of a list, whose value was a media object
\* of either variant holds that object's serialization.
C1_MediaSerialized ==
    pc = "transformed" => MediaSerialized(original, Val(returned))

\* r differs from dict d at most in entries whose value is a media object:
\* same keys in the same order, scalars unchanged, elements of a list that
\* are not dicts unchanged (media objects and nested lists included).
RECURSIVE OnlyMediaEntriesChanged(_, _)
OnlyMediaEntriesChanged(d, r) ==
    /\ r.t = "dict"
    /\ Len(r.items) = Len(d.items)
    /\ \A i \in 1..Len(d.items) :
          LET v == d.items[i].v
              w == r.items[i].v
          IN  /\ r.items[i].k = d.items[i].k
              /\ IsMediaObject(v) => (w = v \/ w = Serialize(v))
              /\ v.t \in {"scalar", "json"} => w = v
              /\ v.t = "dict" => OnlyMediaEntriesChanged(v, w)
              /\ v.t = "list" =>
                    /\ w.t = "list"
                    /\ Len(w.elems) = Len(v.elems)
                    /\ \A j \in 1..Len(v.elems) :
                          IF v.elems[j].t = "dict"
                          THEN OnlyMediaEntriesChanged(v.elems[j], w.elems[j])
                          ELSE w.elems[j] = v.elems[j]

RECURSIVE HasMedia(_)
HasMedia(v) ==
    \/ IsMediaObject(v)
    \/ v.t = "dict" /\ \E i \in 1..Len(v.items) : HasMedia(v.items[i].v)
    \/ v.t = "list" /\ \E j \in 1..Len(v.elems) : HasMedia(v.elems[j])

\* C9: transform changes nothing except dict values that are media objects
\* (same keys in the same order, scalars unchanged, a media object that is an
\* element of a list and anything inside a list nested in a list left as it
\* was), and a document with no media object is returned equal to itself.
C9_Frame ==
    pc = "transformed" =>
        /\ OnlyMediaEntriesChanged(original, Val(returned))
        /\ ~HasMedia(original) => Val(returned) = original

\* {"a": [EmbText], "b": EmbText}: the entry b is serialized, the element of
\* the list is not.
C9_Witness ==
    /\ pc = "transformed"
    /\ original = Dict(<<[k |-> "a", v |-> List(<<EmbTextObj>>)],
                         [k |-> "b", v |-> EmbTextObj]>>)
    /\ Val(returned) = Dict(<<[k |-> "a", v |-> List(<<EmbTextObj>>)],
                              [k |-> "b", v |-> EmbText_to_json(EmbTextObj)]>>)

====
